---------------------------- MODULE Spec2Model ----------------------------
(***************************************************************************)
(* A model of player4.py: the image editor's pixel functions               *)
(* (invert_image_keep_alpha, blend_images), its fixed compositing pipeline *)
(* (ImageEditorApp._apply_pipeline) and the handlers of ImageEditorApp     *)
(* with Tk's timer queue (root.after / root.after_cancel).                 *)
(*                                                                         *)
(* An image is a flat raster: a mode, a size and the one colour all its    *)
(* pixels carry.  Every function of the program used here works pixel by   *)
(* pixel, and a resize of a flat image is the flat image of the new size,  *)
(* so a flat image stands for each pixel of an arbitrary image.            *)
(***************************************************************************)
EXTENDS Integers, Sequences, FiniteSets, TLC

(* 8-bit samples *)
MaxSample == 255

Samples == 0..MaxSample

Min(a, b) == IF a <= b THEN a ELSE b

Max(a, b) == IF a >= b THEN a ELSE b

(***************************************************************************)
(* Images (PIL.Image.Image), and Python's None.                            *)
(***************************************************************************)
None == [mode |-> "None", size |-> <<0, 0>>, px |-> <<>>]

Image(m, s, p) == [mode |-> m, size |-> s, px |-> p]

(* the bands of a mode, as PIL's Image.getbands *)
Bands(m) ==
    CASE m = "L"    -> <<"L">>
      [] m = "LA"   -> <<"L", "A">>
      [] m = "RGB"  -> <<"R", "G", "B">>
      [] m = "RGBA" -> <<"R", "G", "B", "A">>

(* ITU-R 601-2 luma as PIL's rgb2l computes it in 16.16 fixed point *)
L24(r, g, b) == (r * 19595 + g * 38470 + b * 7471 + 32768) \div 65536

(* Image.convert(mode) for the modes L, LA, RGB, RGBA *)
convert(im, m) ==
    LET p == im.px
        rgb == IF im.mode \in {"L", "LA"} THEN <<p[1], p[1], p[1]>>
               ELSE <<p[1], p[2], p[3]>>
        a == IF im.mode \in {"LA", "RGBA"} THEN p[Len(p)] ELSE MaxSample
        l == IF im.mode \in {"L", "LA"} THEN p[1] ELSE L24(p[1], p[2], p[3])
    IN  IF im.mode = m THEN im
        ELSE CASE m = "RGB"  -> Image("RGB", im.size, rgb)
               [] m = "RGBA" -> Image("RGBA", im.size, rgb \o <<a>>)
               [] m = "L"    -> Image("L", im.size, <<l>>)
               [] m = "LA"   -> Image("LA", im.size, <<l, a>>)

(* Image.resize(size): a flat image keeps its colour *)
resize(im, s) == [im EXCEPT !.size = s]

(* a variant of InvertSample that negates modulo 256 *)
InvertSampleOff(c) == (MaxSample + 1 - c) % (MaxSample + 1)

(* ImageOps.invert: the lookup table 255 - i on every band *)
InvertSample(c) == MaxSample - c

ImageOps_invert(im) == [im EXCEPT !.px = [i \in DOMAIN im.px |-> InvertSample(im.px[i])]]

(***************************************************************************)
(* invert_image_keep_alpha(img)                                            *)
(***************************************************************************)
invert_image_keep_alpha(im) ==
    IF im.mode = "RGBA"
    THEN LET rgb == Image("RGB", im.size, SubSeq(im.px, 1, 3))   \* split, merge
             inv == ImageOps_invert(rgb)
         IN  Image("RGBA", im.size, inv.px \o <<im.px[4]>>)
    ELSE ImageOps_invert(convert(im, "RGB"))

(***************************************************************************)
(* blend_images(base_img, top_img, mode)                                   *)
(***************************************************************************)
BlendModes == {"normal", "multiply", "screen", "overlay"}

(* ImageChops' MULDIV255: a * b / 255, rounded *)
MulDiv255(a, b) == LET tmp == a * b + 128 IN ((tmp \div 256) + tmp) \div 256

(* Image.blend(base, top, 0.5): in1 + 0.5 * (in2 - in1), cast to UINT8 *)
NormalSample(b, t) == (b + t) \div 2

(* ImageChops.multiply *)
MultiplySample(b, t) == MulDiv255(b, t)

(* ImageChops.screen *)
ScreenSample(b, t) == MaxSample - MulDiv255(MaxSample - b, MaxSample - t)

(* a variant of OverlaySample that rounds to the nearest integer *)
OverlaySampleRounded(b, t) ==
    IF 2 * b <= MaxSample
    THEN Max(0, Min(MaxSample, (4 * b * t + MaxSample) \div (2 * MaxSample)))
    ELSE LET x == 2 * (MaxSample - b) * (MaxSample - t)
         IN  Max(0, Min(MaxSample, MaxSample - ((2 * x + MaxSample - 1) \div (2 * MaxSample))))

(* The overlay branch of blend_images on one sample.  The code works in    *)
(* float32 on b/255 and t/255: mask = b/255 <= 0.5 holds exactly for       *)
(* b <= 127; np.clip(out*255, 0, 255).astype(np.uint8) clamps and then     *)
(* truncates.  On all 256 x 256 sample pairs the float32 result truncates  *)
(* to the floor of the exact value, which is what is computed here.        *)
OverlaySample(b, t) ==
    IF 2 * b <= MaxSample
    THEN Max(0, Min(MaxSample, (2 * b * t) \div MaxSample))
    ELSE LET x == 2 * (MaxSample - b) * (MaxSample - t)
         IN  Max(0, Min(MaxSample, MaxSample - ((x + MaxSample - 1) \div MaxSample)))

(* a variant of blend_images whose fallback returns the top image *)
blend_images_fallbackTop(base_img, top_img, mode) ==
    LET base == convert(base_img, "RGB")
        top == resize(convert(top_img, "RGB"), base.size)
        each(f(_, _)) == [base EXCEPT !.px = [i \in 1..3 |-> f(base.px[i], top.px[i])]]
    IN  CASE mode = "normal"   -> each(NormalSample)
          [] mode = "multiply" -> each(MultiplySample)
          [] mode = "screen"   -> each(ScreenSample)
          [] mode = "overlay"  -> each(OverlaySample)
          [] OTHER             -> top

blend_images(base_img, top_img, mode) ==
    LET base == convert(base_img, "RGB")
        top == resize(convert(top_img, "RGB"), base.size)
        each(f(_, _)) == [base EXCEPT !.px = [i \in 1..3 |-> f(base.px[i], top.px[i])]]
    IN  CASE mode = "normal"   -> each(NormalSample)
          [] mode = "multiply" -> each(MultiplySample)
          [] mode = "screen"   -> each(ScreenSample)
          [] mode = "overlay"  -> each(OverlaySample)
          [] OTHER             -> base

(***************************************************************************)
(* The stages of ImageEditorApp._apply_pipeline                            *)
(***************************************************************************)
(* ImageEnhance.Brightness(out).enhance(pct/100.0): Image.blend of a black *)
(* image (carrying out's alpha band) with out; a factor in [0,1]           *)
(* truncates, a factor above 1 clips to 255.                               *)
BrightnessSample(c, pct) == Min(MaxSample, (c * pct) \div 100)

Luminance(out, pct) ==
    [out EXCEPT !.px = [i \in DOMAIN out.px |->
        IF Bands(out.mode)[i] = "A" THEN out.px[i]
        ELSE BrightnessSample(out.px[i], pct)]]

(* a variant of MaskLut that spreads 129..255 over the full range to 255 *)
MaskLutFull(p) == Min(MaxSample, (Max(0, p - 128) * MaxSample + 126) \div 127)

(* the lambda given to point(): max(0, p - 128) * 2 *)
MaskLut(p) == Max(0, p - 128) * 2

(* out.convert('L').point(...) *)
HighlightMask(out) ==
    LET l == convert(out, "L") IN [l EXCEPT !.px = <<MaskLut(l.px[1])>>]

(* Pillow's SHIFTFORDIV255 *)
ShiftForDiv255(a) == ((a \div 256) + a) \div 256

(* Image.alpha_composite(dst, src), both RGBA (Pillow's AlphaComposite.c) *)
alpha_composite(dst, src) ==
    LET sa == src.px[4]
        da == dst.px[4]
        blend == da * (MaxSample - sa)
        outa255 == sa * 255 + blend
        coef1 == (sa * 255 * 255 * 128) \div outa255
        coef2 == 255 * 128 - coef1
        chan(i) == ShiftForDiv255(src.px[i] * coef1 + dst.px[i] * coef2 + 128 * 128) \div 128
    IN  IF sa = 0 THEN dst
        ELSE [dst EXCEPT !.px = <<chan(1), chan(2), chan(3), ShiftForDiv255(outa255 + 128)>>]

(* lines 173-176: the highlight overlay, composited over out *)
Highlight(out, color) ==
    LET overlay == Image("RGBA", out.size, color \o <<0>>)
        mask == HighlightMask(out)
        withAlpha == [overlay EXCEPT !.px[4] = mask.px[1]]      \* putalpha
    IN  alpha_composite(convert(out, "RGBA"), withAlpha)

(* a variant of GradientMap that converts the blend back to out's mode *)
GradientMapKeepAlpha(out, grad_image, mode) ==
    LET grad == resize(grad_image, out.size)
    IN  convert(blend_images(convert(out, "RGB"), grad, mode), out.mode)

(* lines 179-180 *)
GradientMap(out, grad_image, mode) ==
    LET grad == resize(grad_image, out.size)
    IN  blend_images(convert(out, "RGB"), grad, mode)

(* lines 183-184 *)
Texture(out, texture) ==
    LET tex == resize(texture, out.size)
    IN  alpha_composite(convert(out, "RGBA"), tex)

(* _apply_pipeline as one function of the image and the fields it reads *)
ApplyPipeline(im, pct, inv, color, grad, mode, tex) ==
    LET o1 == Luminance(im, pct)
        o2 == IF inv THEN invert_image_keep_alpha(o1) ELSE o1
        o3 == Highlight(o2, color)
        o4 == IF grad # None THEN GradientMap(o3, grad, mode) ELSE o3
        o5 == IF tex # None THEN Texture(o4, tex) ELSE o4
    IN  o5

(***************************************************************************)
(* State.  The fields of ImageEditorApp (brightness_factor and             *)
(* brightness_var in percent; preview_after_id 0 is None), Tk's queue of   *)
(* pending after() callbacks, the open save dialog, and the frame of the   *)
(* function being executed: its arguments img, top and mode, its local     *)
(* out, its position pc and the stages it has run.                         *)
(* History: lastOp is the handler that ran last ("adjust" for the ones     *)
(* that set one parameter or none and schedule), burst the number of       *)
(* _schedule_preview_update calls made back to back, counted from the      *)
(* first one made with no callback pending (it stops at MaxBurst), stale   *)
(* whether processed_fullres was out of date when the save handler was     *)
(* entered, written what the last step handed to Image.save.               *)
(***************************************************************************)
VARIABLES original_image, processed_fullres, brightness_factor, invert,
          highlight_color, gradient_map_image, gradient_blend_mode,
          texture_image, preview_after_id, brightness_var, invert_var,
          timers, dialog, lastOp, burst, stale, written,
          fn, img, top, mode, out, pc, trace

fields == <<original_image, processed_fullres, brightness_factor, invert,
            highlight_color, gradient_map_image, gradient_blend_mode,
            texture_image, preview_after_id, brightness_var, invert_var>>

params == <<brightness_factor, invert, highlight_color, gradient_map_image,
            gradient_blend_mode, texture_image, brightness_var, invert_var>>

tk == <<timers, dialog>>

history == <<lastOp, burst, stale, written>>

frame == <<fn, img, top, mode, out, pc, trace>>

vars == <<fields, tk, history, frame>>

White == <<255, 255, 255>>

NoFile == [path |-> "", img |-> None, stale |-> FALSE]

(* ImageEditorApp.__init__ *)
AppInit ==
    /\ original_image = None
    /\ processed_fullres = None
    /\ brightness_factor = 100
    /\ invert = FALSE
    /\ highlight_color = White
    /\ gradient_map_image = None
    /\ gradient_blend_mode = "normal"
    /\ texture_image = None
    /\ preview_after_id = 0
    /\ brightness_var = 100
    /\ invert_var = FALSE

TkIdle == timers = {} /\ dialog = "none"

HistoryInit == lastOp = "init" /\ burst = 0 /\ stale = FALSE /\ written = NoFile

FrameIdle ==
    /\ fn = "none" /\ img = None /\ top = None /\ mode = "normal"
    /\ out = None /\ pc = "idle" /\ trace = <<>>

(***************************************************************************)
(* The pixel functions on their own: SpecOps calls invert_image_keep_alpha *)
(* (once, and again on its result) and the highlight mask on every image   *)
(* of OpImages; SpecBlend calls blend_images.                              *)
(***************************************************************************)
AuxSamples == {0, MaxSample}

AlphaSamples == {0, 128, MaxSample}

Colors == {<<r, g, b>> : r \in Samples, g \in AuxSamples, b \in AuxSamples}
              \cup {<<c, c, c>> : c \in Samples}

OpSize == <<4, 4>>

OpImages ==
    {Image("L", OpSize, <<l>>) : l \in Samples}
        \cup {Image("LA", OpSize, <<l, a>>) : l \in Samples, a \in AlphaSamples}
        \cup {Image("RGB", OpSize, c) : c \in Colors}
        \cup {Image("RGBA", OpSize, c \o <<a>>) : c \in Colors, a \in AlphaSamples}

InitOps ==
    /\ AppInit /\ TkIdle /\ HistoryInit
    /\ fn \in {"invert_image_keep_alpha", "mask"}
    /\ img \in OpImages
    /\ top = None /\ mode = "normal" /\ out = None /\ pc = "call" /\ trace = <<>>

InvertCall ==
    /\ fn = "invert_image_keep_alpha" /\ pc = "call"
    /\ out' = invert_image_keep_alpha(img)
    /\ pc' = "ret"
    /\ UNCHANGED <<fields, tk, history, fn, img, top, mode, trace>>

InvertAgain ==
    /\ fn = "invert_image_keep_alpha" /\ pc = "ret"
    /\ out' = invert_image_keep_alpha(out)
    /\ pc' = "ret2"
    /\ UNCHANGED <<fields, tk, history, fn, img, top, mode, trace>>

MaskCall ==
    /\ fn = "mask" /\ pc = "call"
    /\ out' = HighlightMask(img)
    /\ pc' = "ret"
    /\ UNCHANGED <<fields, tk, history, fn, img, top, mode, trace>>

NextOps == InvertCall \/ InvertAgain \/ MaskCall

SpecOps == InitOps /\ [][NextOps]_vars

(* blend_images: every pair of samples meets in the first channel *)
UnknownMode == "difference"

BlendBases ==
    {Image("RGB", OpSize, <<b, MaxSample - b, 64>>) : b \in Samples}
        \cup {Image("RGBA", OpSize, <<b, 64, MaxSample - b, a>>) : b \in AuxSamples, a \in AlphaSamples}
        \cup {Image("L", OpSize, <<b>>) : b \in AuxSamples}

TopSize == <<2, 3>>

BlendTops == {Image("RGB", TopSize, <<t, t, MaxSample - t>>) : t \in Samples}

FewTops == {Image("RGB", TopSize, <<t, t, MaxSample - t>>) : t \in {0, 96, 128, MaxSample}}

InitBlend ==
    /\ AppInit /\ TkIdle /\ HistoryInit
    /\ fn = "blend_images"
    /\ img \in BlendBases
    /\ mode \in BlendModes \cup {UnknownMode}
    /\ top \in IF mode \in {"overlay", UnknownMode} THEN BlendTops ELSE FewTops
    /\ out = None /\ pc = "call" /\ trace = <<>>

BlendCall ==
    /\ fn = "blend_images" /\ pc = "call"
    /\ out' = blend_images(img, top, mode)
    /\ pc' = "ret"
    /\ UNCHANGED <<fields, tk, history, fn, img, top, mode, trace>>

NextBlend == BlendCall

SpecBlend == InitBlend /\ [][NextBlend]_vars

(***************************************************************************)
(* Properties of the pixel functions                                       *)
(***************************************************************************)
HasAlpha(im) == im.mode \in {"LA", "RGBA"}

Alpha(im) == im.px[Len(im.px)]

InvertReturned == fn = "invert_image_keep_alpha" /\ pc = "ret"

(* C3: invert_image_keep_alpha returns, for every input with an alpha      *)
(* channel (RGBA or LA), an image that has an alpha channel equal to the   *)
(* input's.  The code keeps alpha only for mode RGBA.                      *)
C3_InvertKeepsAlpha ==
    (InvertReturned /\ HasAlpha(img)) => (HasAlpha(out) /\ Alpha(out) = Alpha(img))

(* C4: on an RGB or RGBA image one application maps every colour sample c  *)
(* to 255 - c and leaves alpha alone, and a second application gives the   *)
(* original image back exactly.                                            *)
C4_InvertInvolution ==
    (fn = "invert_image_keep_alpha" /\ img.mode \in {"RGB", "RGBA"}) =>
        /\ pc = "ret" =>
            /\ out.mode = img.mode
            /\ \A i \in 1..3 : out.px[i] = 255 - img.px[i]
            /\ img.mode = "RGBA" => out.px[4] = img.px[4]
        /\ pc = "ret2" => out = img

C4_Witness ==
    /\ fn = "invert_image_keep_alpha" /\ pc = "ret2"
    /\ img.mode = "RGBA" /\ img.px = <<100, 0, 255, 128>>
    /\ out.px = <<100, 0, 255, 128>>

Gray(im) == convert(im, "L").px[1]

MaskReturned == fn = "mask" /\ pc = "ret"

(* C6 as claimed: the highlight mask is 0 for gray <= 128, non-decreasing  *)
(* in gray, and 255 at gray = 255.                                         *)
C6_MaskReachesFull ==
    MaskReturned =>
        /\ Gray(img) <= 128 => out.px[1] = 0
        /\ \A g \in Samples : g <= Gray(img) => MaskLut(g) <= out.px[1]
        /\ Gray(img) = 255 => out.px[1] = 255

(* C6 as amended: the highlight mask is 0 for gray <= 128, non-decreasing  *)
(* in gray, 2 * (gray - 128) above 128, and so 254 at gray = 255: it never *)
(* reaches 255.                                                            *)
C6_MaskRamp ==
    MaskReturned =>
        /\ out.mode = "L"
        /\ Gray(img) <= 128 => out.px[1] = 0
        /\ \A g \in Samples : g <= Gray(img) => MaskLut(g) <= out.px[1]
        /\ Gray(img) > 128 => out.px[1] = 2 * (Gray(img) - 128)
        /\ Gray(img) = 255 => out.px[1] = 254
        /\ out.px[1] <= 254

C6_Witness == MaskReturned /\ img.mode = "RGBA" /\ Gray(img) = 255 /\ out.px[1] = 254

BlendReturned == fn = "blend_images" /\ pc = "ret"

(* the RGB samples of an image of mode L, RGB or RGBA *)
RGBSample(im, i) == IF im.mode = "L" THEN im.px[1] ELSE im.px[i]

(* C5: with a mode that is none of normal, multiply, screen, overlay,     *)
(* blend_images returns an RGB image of the base's size whose samples are  *)
(* the base's RGB samples, whatever the top image.                         *)
C5_UnknownModeReturnsBase ==
    (BlendReturned /\ mode \notin {"normal", "multiply", "screen", "overlay"}) =>
        /\ out # None
        /\ out.mode = "RGB"
        /\ out.size = img.size
        /\ \A i \in 1..3 : out.px[i] = RGBSample(img, i)

C5_Witness ==
    /\ BlendReturned /\ mode = UnknownMode
    /\ img.mode = "RGBA" /\ top.px = <<96, 96, 159>> /\ top.size # img.size
    /\ out.px = <<255, 64, 0>>

(* 255 times the overlay formula on the samples b and t, the branch taken  *)
(* by b alone: 2bt/255 where b/255 <= 0.5, else 255 - 2(255-b)(255-t)/255  *)
Overlay255(b, t) ==
    IF 2 * b <= 255 THEN 2 * b * t ELSE 255 * 255 - 2 * (255 - b) * (255 - t)

Clamp(x) == Max(0, Min(255, x))

(* the same clamp on a value scaled by 255 *)
Clamp255(n) == Max(0, Min(255 * 255, n))

(* C7 as claimed: in overlay mode every output sample is the overlay       *)
(* formula's value rounded to the nearest integer and clamped.             *)
C7_OverlayRounds ==
    (BlendReturned /\ mode = "overlay") =>
        \A i \in 1..3 :
            LET n == Overlay255(RGBSample(img, i), top.px[i])
            IN  out.px[i] = Clamp((2 * n + 255) \div 510)

(* C7 as amended: in overlay mode every output sample is the overlay       *)
(* formula's value, the branch chosen by that channel's base sample,       *)
(* clamped to [0,255] and then truncated (not rounded).                    *)
C7_OverlayTruncates ==
    (BlendReturned /\ mode = "overlay") =>
        /\ out.mode = "RGB"
        /\ \A i \in 1..3 :
            LET n == Overlay255(RGBSample(img, i), top.px[i])
                o == out.px[i]
            IN  /\ o \in 0..255
                /\ 255 * o <= Clamp255(n)
                /\ Clamp255(n) < 255 * (o + 1)

C7_Witness ==
    /\ BlendReturned /\ mode = "overlay"
    /\ img.px = <<2, 253, 64>> /\ top.px = <<96, 96, 159>>
    /\ out.px[1] = 1 /\ out.px[2] = 252

(***************************************************************************)
(* _apply_pipeline(img), statement by statement.  SpecPipeline starts a    *)
(* call on an application whose adjustable fields hold any of the values   *)
(* the handlers can give them.                                             *)
(***************************************************************************)
(* what line 169 and line 171 read: the Tk variables brightness_var and    *)
(* invert_var, not the fields brightness_factor and invert                 *)
LuminancePercent == brightness_var

(* a variant of InvertFlag that reads the field *)
InvertFlagStale == invert

InvertFlag == invert_var

(* a variant of StageOrder with the highlight before the invert *)
StageOrderHighlightFirst == <<"luminance", "highlight", "invert", "gradient", "texture", "return">>

(* the statements of _apply_pipeline in program order *)
StageOrder == <<"luminance", "invert", "highlight", "gradient", "texture", "return">>

Position(p) == CHOOSE i \in DOMAIN StageOrder : StageOrder[i] = p

After(p) == IF Position(p) = Len(StageOrder) THEN "done" ELSE StageOrder[Position(p) + 1]

InPipeline(p) == fn = "_apply_pipeline" /\ pc = p

Ran(stage, result) ==
    /\ out' = result
    /\ trace' = Append(trace, stage)
    /\ pc' = After(pc)

Skipped == pc' = After(pc) /\ UNCHANGED <<out, trace>>

StageLuminance ==
    /\ InPipeline("luminance")
    /\ Ran("luminance", Luminance(out, LuminancePercent))
    /\ UNCHANGED <<fields, tk, history, fn, img, top, mode>>

StageInvert ==
    /\ InPipeline("invert")
    /\ IF InvertFlag THEN Ran("invert", invert_image_keep_alpha(out)) ELSE Skipped
    /\ UNCHANGED <<fields, tk, history, fn, img, top, mode>>

StageHighlight ==
    /\ InPipeline("highlight")
    /\ Ran("highlight", Highlight(out, highlight_color))
    /\ UNCHANGED <<fields, tk, history, fn, img, top, mode>>

StageGradient ==
    /\ InPipeline("gradient")
    /\ IF gradient_map_image # None
       THEN Ran("gradient", GradientMap(out, gradient_map_image, gradient_blend_mode))
       ELSE Skipped
    /\ UNCHANGED <<fields, tk, history, fn, img, top, mode>>

StageTexture ==
    /\ InPipeline("texture")
    /\ IF texture_image # None THEN Ran("texture", Texture(out, texture_image)) ELSE Skipped
    /\ UNCHANGED <<fields, tk, history, fn, img, top, mode>>

Return ==
    /\ InPipeline("return")
    /\ pc' = After(pc)
    /\ UNCHANGED <<fields, tk, history, fn, img, top, mode, out, trace>>

(* the whole call, as the handlers make it *)
_apply_pipeline(im) ==
    ApplyPipeline(im, LuminancePercent, InvertFlag, highlight_color,
                  gradient_map_image, gradient_blend_mode, texture_image)

Red == <<255, 0, 0>>

SliderValues == {0, 50, 100, 150, 200}

HighlightColors == {White, Red}

GradientFiles == {Image("RGB", <<2, 3>>, <<0, 64, 255>>), Image("RGB", <<4, 4>>, <<200, 128, 30>>)}

(* textures whose colour a premultiplied resize keeps *)
TextureFiles ==
    {Image("RGBA", <<2, 2>>, <<255, 0, 0, 255>>),
     Image("RGBA", <<4, 4>>, <<0, 0, 0, 0>>),
     Image("RGBA", <<2, 3>>, <<255, 0, 0, 128>>)}

PipelineImages ==
    {Image("L", OpSize, <<l>>) : l \in {0, 100, 255}}
        \cup {Image("LA", OpSize, <<l, a>>) : l \in {100, 255}, a \in {0, 128}}
        \cup {Image("RGB", OpSize, c) : c \in {<<200, 100, 50>>, <<128, 128, 128>>, White}}
        \cup {Image("RGBA", OpSize, c \o <<a>>) : c \in {<<200, 100, 50>>, White}, a \in AlphaSamples}

InitPipeline ==
    /\ original_image = None /\ processed_fullres = None
    /\ brightness_factor = 100 /\ invert = FALSE
    /\ preview_after_id = 0
    /\ brightness_var \in SliderValues
    /\ invert_var \in BOOLEAN
    /\ highlight_color \in HighlightColors
    /\ gradient_map_image \in GradientFiles \cup {None}
    /\ gradient_blend_mode \in BlendModes
    /\ texture_image \in TextureFiles \cup {None}
    /\ TkIdle /\ HistoryInit
    /\ fn = "_apply_pipeline"
    /\ img \in PipelineImages
    /\ out = img /\ pc = StageOrder[1] /\ trace = <<>>
    /\ top = None /\ mode = "normal"

NextPipeline ==
    \/ StageLuminance
    \/ StageInvert
    \/ StageHighlight
    \/ StageGradient
    \/ StageTexture
    \/ Return

SpecPipeline == InitPipeline /\ [][NextPipeline]_vars

StageNo(st) ==
    CASE st = "luminance" -> 1
      [] st = "invert"    -> 2
      [] st = "highlight" -> 3
      [] st = "gradient"  -> 4
      [] st = "texture"   -> 5

(* C1: in every invocation the stages run in the order luminance, invert,  *)
(* highlight, gradient, texture: none twice, none before an earlier one;   *)
(* luminance and highlight always run, invert exactly when the invert flag *)
(* is set, gradient and texture exactly when their image is present.       *)
C1_StageOrder ==
    fn = "_apply_pipeline" =>
        /\ \A i, j \in DOMAIN trace : i < j => StageNo(trace[i]) < StageNo(trace[j])
        /\ pc = "done" =>
            trace = <<"luminance">>
                    \o (IF invert_var THEN <<"invert">> ELSE <<>>)
                    \o <<"highlight">>
                    \o (IF gradient_map_image # None THEN <<"gradient">> ELSE <<>>)
                    \o (IF texture_image # None THEN <<"texture">> ELSE <<>>)

C1_Witness ==
    /\ fn = "_apply_pipeline" /\ pc = "done"
    /\ trace = <<"luminance", "invert", "highlight", "gradient", "texture">>
    /\ brightness_var = 100

(* C2: the pipeline's output is RGB exactly when a gradient map is present *)
(* and no texture is, and RGBA otherwise, whatever the base image's mode.  *)
C2_OutputFormat ==
    (fn = "_apply_pipeline" /\ pc = "done") =>
        out.mode = IF gradient_map_image # None /\ texture_image = None THEN "RGB" ELSE "RGBA"

C2_Witness ==
    /\ fn = "_apply_pipeline" /\ pc = "done"
    /\ img.mode = "RGBA" /\ gradient_map_image # None /\ texture_image = None
    /\ out.mode = "RGB"

(***************************************************************************)
(* The application: the handlers of ImageEditorApp, run by Tk's event      *)
(* loop one at a time, and the after() callbacks the loop fires.  A file   *)
(* dialog is modal: while the save dialog is open the loop still fires     *)
(* callbacks but delivers no input to the window.  The other dialogs open  *)
(* before their handler has changed anything, so those handlers are single *)
(* steps taken when the dialog closes.  _update_preview only draws.        *)
(***************************************************************************)
MaxAfterId == 2

MaxBurst == 2

(* a variant of after_cancel that leaves the callback scheduled *)
after_cancel_nothing(q, id) == q

(* root.after_cancel(id) *)

after_cancel(q, id) == q \ {id}

(* root.after(delay_ms, self._apply_fullres) returns an id not in use *)
UnusedIds == (1..MaxAfterId) \ (timers \cup {preview_after_id})

(* lines 206-207 *)
_schedule_preview_update ==
    /\ UnusedIds # {}
    /\ LET q == IF preview_after_id # 0 THEN after_cancel(timers, preview_after_id) ELSE timers
           id == CHOOSE i \in UnusedIds : \A j \in UnusedIds : i <= j
       IN  /\ timers' = q \cup {id}
           /\ preview_after_id' = id
    /\ burst' = IF timers = {} THEN 1 ELSE Min(burst + 1, MaxBurst)

Handled(name) ==
    /\ lastOp' = name
    /\ stale' = FALSE
    /\ written' = NoFile
    /\ UNCHANGED <<dialog, frame>>

Cancelled ==
    /\ Handled("cancel")
    /\ UNCHANGED <<fields, timers, burst>>

(* a variant of ResetAdjustments that also resets the blend mode *)
ResetAdjustmentsAndMode ==
    /\ brightness_factor' = 100 /\ invert' = FALSE
    /\ highlight_color' = White
    /\ gradient_map_image' = None /\ texture_image' = None
    /\ brightness_var' = 100 /\ invert_var' = FALSE
    /\ gradient_blend_mode' = "normal"
    /\ _schedule_preview_update
    /\ UNCHANGED processed_fullres

(* the body of reset_adjustments, lines 156-160 *)
ResetAdjustments ==
    /\ brightness_factor' = 100 /\ invert' = FALSE
    /\ highlight_color' = White
    /\ gradient_map_image' = None /\ texture_image' = None
    /\ brightness_var' = 100 /\ invert_var' = FALSE
    /\ _schedule_preview_update
    /\ UNCHANGED <<gradient_blend_mode, processed_fullres>>

reset_adjustments ==
    /\ dialog = "none"
    /\ ResetAdjustments
    /\ UNCHANGED original_image
    /\ Handled("reset_adjustments")

(* Image.open(path): the decoded file; a palette file carries the RGBA     *)
(* colour of its palette entry                                             *)
OpenFiles == {Image("P", OpSize, <<200, 100, 50, 128>>), Image("RGB", OpSize, <<200, 220, 240>>)}

(* line 118 *)
Loaded(f) == IF f.mode \in {"P", "1"} THEN [f EXCEPT !.mode = "RGBA"] ELSE f

open_image ==
    /\ dialog = "none"
    /\ \E f \in OpenFiles \cup {None} :
        IF f = None THEN Cancelled
        ELSE /\ original_image' = Loaded(f)
             /\ ResetAdjustments
             /\ Handled("open_image")

(* _apply_fullres, lines 188-190 *)
_apply_fullres ==
    IF original_image = None THEN UNCHANGED processed_fullres
    ELSE processed_fullres' = _apply_pipeline(original_image)

SavePaths == {"out.png", "out.jpg", "OUT.JPEG"}

(* path.lower().endswith(('.jpg', '.jpeg')) on SavePaths *)
IsJpeg(path) == path \in {"out.jpg", "OUT.JPEG"}

(* save_image_as up to the dialog, lines 123-125 *)
save_image_as ==
    /\ dialog = "none"
    /\ lastOp' = "save_image_as"
    /\ written' = NoFile
    /\ IF original_image = None
       THEN /\ stale' = FALSE
            /\ UNCHANGED <<fields, tk>>
       ELSE /\ _apply_fullres
            /\ stale' = (processed_fullres # processed_fullres')
            /\ dialog' = "save"
            /\ UNCHANGED <<original_image, params, preview_after_id, timers>>
    /\ UNCHANGED <<burst, frame>>

(* save_image_as from the dialog's answer, lines 127-131 *)
save_dialog_closed ==
    /\ dialog = "save"
    /\ dialog' = "none"
    /\ lastOp' = "save_image_as"
    /\ stale' = FALSE
    /\ \E path \in SavePaths \cup {""} :
        written' = IF path = "" THEN NoFile
                   ELSE [path |-> path,
                         img |-> IF IsJpeg(path) THEN convert(processed_fullres, "RGB")
                                 ELSE processed_fullres,
                         stale |-> stale]
    /\ UNCHANGED <<fields, timers, burst, frame>>

choose_highlight_color ==
    /\ dialog = "none"
    /\ \E color \in HighlightColors \cup {<<>>} :
        IF color = <<>> THEN Cancelled
        ELSE /\ highlight_color' = color
             /\ _schedule_preview_update
             /\ Handled("adjust")
             /\ UNCHANGED <<original_image, processed_fullres, brightness_factor, invert,
                            gradient_map_image, gradient_blend_mode, texture_image,
                            brightness_var, invert_var>>

GradientFile == Image("L", <<2, 3>>, <<64>>)

load_gradient_map ==
    /\ dialog = "none"
    /\ \E f \in {GradientFile, None} :
        IF f = None THEN Cancelled
        ELSE /\ gradient_map_image' = convert(f, "RGB")
             /\ _schedule_preview_update
             /\ Handled("adjust")
             /\ UNCHANGED <<original_image, processed_fullres, brightness_factor, invert,
                            highlight_color, gradient_blend_mode, texture_image,
                            brightness_var, invert_var>>

TextureFile == Image("RGB", <<2, 2>>, <<255, 0, 0>>)

load_texture ==
    /\ dialog = "none"
    /\ \E f \in {TextureFile, None} :
        IF f = None THEN Cancelled
        ELSE /\ texture_image' = convert(f, "RGBA")
             /\ _schedule_preview_update
             /\ Handled("adjust")
             /\ UNCHANGED <<original_image, processed_fullres, brightness_factor, invert,
                            highlight_color, gradient_map_image, gradient_blend_mode,
                            brightness_var, invert_var>>

set_blend_mode ==
    /\ dialog = "none"
    /\ \E m \in BlendModes :
        /\ gradient_blend_mode' = m
        /\ _schedule_preview_update
        /\ Handled("adjust")
        /\ UNCHANGED <<original_image, processed_fullres, brightness_factor, invert,
                       highlight_color, gradient_map_image, texture_image,
                       brightness_var, invert_var>>

(* Ctrl-I, and the Invert checkbutton, which flips invert_var itself *)
toggle_invert ==
    /\ dialog = "none"
    /\ invert_var' = ~invert_var
    /\ _schedule_preview_update
    /\ Handled("adjust")
    /\ UNCHANGED <<original_image, processed_fullres, brightness_factor, invert,
                   highlight_color, gradient_map_image, gradient_blend_mode, texture_image,
                   brightness_var>>

GuiSliderValues == {50, 100}

(* the Luminance slider sets brightness_var and calls its command, line 90 *)
brightness_slider ==
    /\ dialog = "none"
    /\ \E v \in GuiSliderValues :
        /\ brightness_var' = v
        /\ _schedule_preview_update
        /\ Handled("adjust")
        /\ UNCHANGED <<original_image, processed_fullres, brightness_factor, invert,
                       highlight_color, gradient_map_image, gradient_blend_mode, texture_image,
                       invert_var>>

(* the canvas's <Configure> binding, line 106: a resize of the window is   *)
(* no input event, and is delivered while a dialog is open too             *)
canvas_configure ==
    /\ _schedule_preview_update
    /\ lastOp' = "adjust"
    /\ written' = NoFile
    /\ UNCHANGED <<original_image, processed_fullres, params, dialog, stale, frame>>

(* Tk fires a pending after() callback: self._apply_fullres *)
after_callback ==
    /\ \E id \in timers : timers' = timers \ {id}
    /\ _apply_fullres
    /\ lastOp' = IF original_image = None THEN "_apply_fullres:return" ELSE "_apply_fullres"
    /\ written' = NoFile
    /\ UNCHANGED <<original_image, params, preview_after_id, dialog, burst, stale, frame>>

Init == AppInit /\ TkIdle /\ HistoryInit /\ FrameIdle

Next ==
    \/ open_image
    \/ save_image_as
    \/ save_dialog_closed
    \/ choose_highlight_color
    \/ load_gradient_map
    \/ load_texture
    \/ set_blend_mode
    \/ reset_adjustments
    \/ toggle_invert
    \/ brightness_slider
    \/ canvas_configure
    \/ after_callback

Spec == Init /\ [][Next]_vars

(***************************************************************************)
(* Properties of the application                                           *)
(***************************************************************************)
(* the pipeline on the loaded image with the parameters as they are now *)
Latest ==
    ApplyPipeline(original_image, brightness_var, invert_var, highlight_color,
                  gradient_map_image, gradient_blend_mode, texture_image)

CallbackFired == lastOp \in {"_apply_fullres", "_apply_fullres:return"}

(* C8 as claimed: at most one render is pending, it is the one scheduled   *)
(* last, and when the callback fires after a burst of changes nothing is   *)
(* left pending and exactly one pipeline run has happened, on the latest   *)
(* parameters.                                                             *)
C8_BurstRunsPipelineOnce ==
    /\ Cardinality(timers) <= 1
    /\ timers \subseteq {preview_after_id}
    /\ CallbackFired =>
        /\ timers = {}
        /\ lastOp = "_apply_fullres"
        /\ processed_fullres = Latest

(* C8 as amended: at most one render is pending, it is the one scheduled   *)
(* last, and when the callback fires after a burst of changes nothing is   *)
(* left pending; with an image loaded exactly one pipeline run has         *)
(* happened, on the latest parameters, and with no image loaded the        *)
(* callback has returned without running the pipeline.                     *)
C8_LatestWins ==
    /\ Cardinality(timers) <= 1
    /\ timers \subseteq {preview_after_id}
    /\ CallbackFired =>
        /\ timers = {}
        /\ original_image # None =>
            /\ lastOp = "_apply_fullres"
            /\ processed_fullres = Latest
        /\ original_image = None =>
            /\ lastOp = "_apply_fullres:return"
            /\ processed_fullres = None

C8_Witness ==
    /\ lastOp = "_apply_fullres"
    /\ burst >= 2
    /\ invert_var /\ brightness_var = 50 /\ gradient_blend_mode = "overlay"
    /\ gradient_map_image # None
    /\ processed_fullres = Latest

(* what save_image_as has to hand to Image.save for a path *)
Flattened(im, path) == IF IsJpeg(path) THEN convert(im, "RGB") ELSE im

SaveFrame ==
    (lastOp' = "save_image_as" /\ original_image = None) =>
        /\ UNCHANGED <<fields, tk>>
        /\ written' = NoFile

(* C9 as claimed: save_image_as renders before it writes, so what is      *)
(* written is the pipeline's output on the original image and the current  *)
(* parameters; with no image loaded it changes nothing and writes nothing. *)
C9_SavedIsPipelineOutput ==
    /\ [](/\ (dialog = "save" \/ written # NoFile) => processed_fullres = Latest
          /\ dialog = "save" => written = NoFile
          /\ written # NoFile => written.img = Latest)
    /\ [][SaveFrame]_vars

(* C9 as amended: save_image_as renders before it writes, so what is      *)
(* written is the pipeline's output on the original image and the current  *)
(* parameters, converted to RGB when the path ends in .jpg or .jpeg; with  *)
(* no image loaded it changes nothing and writes nothing.                  *)
C9_SavedIsFreshRender ==
    /\ [](/\ (dialog = "save" \/ written # NoFile) => processed_fullres = Latest
          /\ dialog = "save" => written = NoFile
          /\ written # NoFile => written.img = Flattened(Latest, written.path))
    /\ [][SaveFrame]_vars

C9_Witness ==
    /\ written # NoFile /\ written.stale
    /\ IsJpeg(written.path) /\ written.img.mode = "RGB" /\ Latest.mode = "RGBA"
    /\ timers # {}

(* C10: a step of reset_adjustments, and so a successful open_image, ends  *)
(* with luminance 100%, invert off, a white highlight colour and no        *)
(* gradient map or texture, and leaves the blend mode as it was;           *)
(* reset_adjustments leaves the loaded image as it was.                    *)
C10_ResetFrame ==
    [][lastOp' \in {"reset_adjustments", "open_image"} =>
        /\ brightness_var' = 100 /\ brightness_factor' = 100
        /\ invert_var' = FALSE /\ invert' = FALSE
        /\ highlight_color' = <<255, 255, 255>>
        /\ gradient_map_image' = None /\ texture_image' = None
        /\ gradient_blend_mode' = gradient_blend_mode
        /\ lastOp' = "reset_adjustments" => original_image' = original_image
        /\ lastOp' = "open_image" => original_image' # None]_vars

C10_Witness ==
    /\ lastOp = "reset_adjustments"
    /\ gradient_blend_mode = "screen"
    /\ original_image # None /\ processed_fullres # None
    /\ processed_fullres # Latest

=============================================================================
